---- MODULE Spec2Model ----
(***************************************************************************)
(* Model of verify_blueprint.py: the cross-reference of GIT_DIFF_DATA (the *)
(* change set) against EXPECTED_CATEGORIES (the category index), as done   *)
(* by calculate_net_changes, calculate_category_changes and main.          *)
(*                                                                         *)
(* The two module-level tables are hardcoded in the script; here they are  *)
(* drawn from small sets so that every shape of input is covered:          *)
(* duplicate paths, paths without an entry, entries without a path, the    *)
(* category names "" and "UNCATEGORIZED", and negative counts.             *)
(***************************************************************************)
EXTENDS Integers, Sequences, FiniteSets, TLC

VARIABLES
    GIT_DIFF_DATA,          \* sequence of <<path, add, delete>>
    EXPECTED_CATEGORIES,    \* function: a subset of Paths -> category name
    pc,                     \* position in main()
    run,                    \* 1 for the first call of main(), 2 for the second
    i,                      \* index of the for loop of calculate_category_changes
    total_insertions, total_deletions, total_net,   \* locals of main()
    categories,             \* the dict built by calculate_category_changes,
                            \* as the sequence of its items in insertion order
    uncategorized,          \* local of main(), line 295
    out,                    \* what main() has printed so far, block by block
    exit_code,              \* -1 while running, the process exit status after
    first                   \* everything the first call produced, kept for run 2

vars == <<GIT_DIFF_DATA, EXPECTED_CATEGORIES, pc, run, i, total_insertions,
          total_deletions, total_net, categories, uncategorized, out,
          exit_code, first>>

inputs == <<GIT_DIFF_DATA, EXPECTED_CATEGORIES>>

----------------------------------------------------------------------------
(* Bounds of the model *)

MaxFiles == 2       \* longest GIT_DIFF_DATA
MaxCount == 1       \* largest additions / deletions count of one record

(* The input alphabet *)

Paths == {"x.go", "y.go"}
PathOrder == <<"x.go", "y.go">>             \* Python's str order on Paths
SENTINEL == "UNCATEGORIZED"
CategoryNames == {"", "Core", "Docs", "UNCATEGORIZED"}
CategoryOrder == <<"", "Core", "Docs", "UNCATEGORIZED">>   \* Python's str order

AddCounts == (0 - 1) .. MaxCount            \* a negative count is a malformed record
DeleteCounts == 0 .. MaxCount
ChangeRecords == Paths \X AddCounts \X DeleteCounts
ChangeSets == UNION {[1..n -> ChangeRecords] : n \in 0..MaxFiles}
CategoryIndexes == UNION {[S -> CategoryNames] : S \in SUBSET Paths}

----------------------------------------------------------------------------
(* Helpers *)

Range(s) == {s[k] : k \in DOMAIN s}

RECURSIVE SumSeq(_)
SumSeq(s) == IF s = <<>> THEN 0 ELSE s[1] + SumSeq(Tail(s))

Map3(s, col) == [k \in DOMAIN s |-> s[k][col]]

\* dict.get(key, default)
Get(d, key, default) == IF key \in DOMAIN d THEN d[key] ELSE default

\* position of a dict key in the items sequence, 0 when absent
KeyIndex(cats, c) ==
    IF \E k \in DOMAIN cats : cats[k].category = c
    THEN CHOOSE k \in DOMAIN cats : cats[k].category = c
    ELSE 0

----------------------------------------------------------------------------
(* calculate_net_changes, lines 239-244 *)

calculate_net_changes(data) ==
    [total_insertions |-> SumSeq(Map3(data, 2)),
     total_deletions  |-> SumSeq(Map3(data, 3)),
     total_net        |-> SumSeq([k \in DOMAIN data |-> data[k][2] + data[k][3]])]

(* one iteration of the loop of calculate_category_changes, lines 249-256 *)

CategoryStepNoDelete(cats, index, rec) ==
    LET category == Get(index, rec[1], SENTINEL)
        created  == IF KeyIndex(cats, category) = 0
                    THEN Append(cats, [category |-> category, files |-> <<>>,
                                       additions |-> 0, deletions |-> 0, net |-> 0])
                    ELSE cats
        k        == KeyIndex(created, category)
    IN  [created EXCEPT ![k].files     = Append(@, rec),
                        ![k].additions = @ + rec[2],
                        ![k].deletions = @ + rec[3],
                        ![k].net       = @ + rec[2]]

CategoryStepOverwrite(cats, index, rec) ==
    LET category == Get(index, rec[1], SENTINEL)
        fresh    == [category |-> category, files |-> <<>>,
                     additions |-> 0, deletions |-> 0, net |-> 0]
        created  == IF KeyIndex(cats, category) = 0
                    THEN Append(cats, fresh)
                    ELSE [cats EXCEPT ![KeyIndex(cats, category)] = fresh]
        k        == KeyIndex(created, category)
    IN  [created EXCEPT ![k].files     = Append(@, rec),
                        ![k].additions = @ + rec[2],
                        ![k].deletions = @ + rec[3],
                        ![k].net       = @ + (rec[2] + rec[3])]

CategoryStep(cats, index, rec) ==
    LET category == Get(index, rec[1], SENTINEL)
        created  == IF KeyIndex(cats, category) = 0
                    THEN Append(cats, [category |-> category, files |-> <<>>,
                                       additions |-> 0, deletions |-> 0, net |-> 0])
                    ELSE cats
        k        == KeyIndex(created, category)
    IN  [created EXCEPT ![k].files     = Append(@, rec),
                        ![k].additions = @ + rec[2],
                        ![k].deletions = @ + rec[3],
                        ![k].net       = @ + (rec[2] + rec[3])]

----------------------------------------------------------------------------
(* sorted(..., key=..., reverse=True): stable, descending by key.          *)
(* The argument is a sequence of [k |-> key, v |-> item].                  *)

InsertDescBeforeEqual(sorted, p) ==
    LET n == Cardinality({j \in DOMAIN sorted : sorted[j].k > p.k})
    IN  SubSeq(sorted, 1, n) \o <<p>> \o SubSeq(sorted, n + 1, Len(sorted))

InsertDesc(sorted, p) ==
    LET n == Cardinality({j \in DOMAIN sorted : sorted[j].k >= p.k})
    IN  SubSeq(sorted, 1, n) \o <<p>> \o SubSeq(sorted, n + 1, Len(sorted))

RECURSIVE SortedReverse(_)
SortedReverse(ps) ==
    IF ps = <<>> THEN <<>>
    ELSE InsertDesc(SortedReverse(SubSeq(ps, 1, Len(ps) - 1)), ps[Len(ps)])

Values(ps) == [j \in DOMAIN ps |-> ps[j].v]

\* line 282: sorted(categories.keys(), key=lambda c: categories[c]["net"], reverse=True)
SortedCategories(cats) ==
    Values(SortedReverse([j \in DOMAIN cats |-> [k |-> cats[j].net, v |-> cats[j]]]))

\* line 290: sorted(cat['files'], key=lambda x: x[1], reverse=True)
SortedFiles(files) ==
    Values(SortedReverse([j \in DOMAIN files |-> [k |-> files[j][2], v |-> files[j]]]))

\* line 312: sorted(missing_files), a set of paths in ascending order
SortedPaths(S) == SelectSeq(PathOrder, LAMBDA p : p \in S)

----------------------------------------------------------------------------
(* The blocks main() prints *)

FactsBlock(n, ins, del, net) ==
    [kind |-> "facts", files |-> n, insertions |-> ins, deletions |-> del,
     total |-> net, net_change |-> ins - del]

CategoryBlock(cat) ==
    [kind |-> "category", category |-> cat.category, nfiles |-> Len(cat.files),
     insertions |-> cat.additions, deletions |-> cat.deletions,
     total |-> cat.net, files |-> SortedFiles(cat.files)]

\* lines 282-292
BreakdownBlocks(cats) ==
    LET s == SortedCategories(cats) IN [j \in DOMAIN s |-> CategoryBlock(s[j])]

\* line 295: categories.get("UNCATEGORIZED", {}).get("files", [])
UncategorizedFiles(cats) ==
    IF KeyIndex(cats, SENTINEL) = 0 THEN <<>> ELSE cats[KeyIndex(cats, SENTINEL)].files

\* lines 304-306
MissingFilesReversed(data, index) == DOMAIN index \ {data[k][1] : k \in DOMAIN data}

MissingFiles(data, index) == {data[k][1] : k \in DOMAIN data} \ DOMAIN index

----------------------------------------------------------------------------
(* The state machine of main() *)

Init ==
    /\ GIT_DIFF_DATA \in ChangeSets
    /\ EXPECTED_CATEGORIES \in CategoryIndexes
    /\ pc = "net"
    /\ run = 1
    /\ i = 1
    /\ total_insertions = 0 /\ total_deletions = 0 /\ total_net = 0
    /\ categories = <<>>
    /\ uncategorized = <<>>
    /\ out = <<>>
    /\ exit_code = 0 - 1
    /\ first = <<>>

\* lines 266-273
NetChanges ==
    /\ pc = "net"
    /\ LET t == calculate_net_changes(GIT_DIFF_DATA) IN
        /\ total_insertions' = t.total_insertions
        /\ total_deletions' = t.total_deletions
        /\ total_net' = t.total_net
        /\ out' = Append(out, FactsBlock(Len(GIT_DIFF_DATA), t.total_insertions,
                                         t.total_deletions, t.total_net))
    /\ pc' = "group"
    /\ UNCHANGED <<inputs, run, i, categories, uncategorized, exit_code, first>>

\* lines 277, 248: the call, and categories = {}
CategoryChangesEnterStale ==
    /\ pc = "group"
    /\ i' = 1
    /\ pc' = "loop"
    /\ UNCHANGED <<inputs, run, total_insertions, total_deletions, total_net,
                   categories, uncategorized, out, exit_code, first>>

CategoryChangesEnter ==
    /\ pc = "group"
    /\ categories' = <<>>
    /\ i' = 1
    /\ pc' = "loop"
    /\ UNCHANGED <<inputs, run, total_insertions, total_deletions, total_net,
                   uncategorized, out, exit_code, first>>

\* lines 249-256: one record
CategoryChangesLoop ==
    /\ pc = "loop"
    /\ i <= Len(GIT_DIFF_DATA)
    /\ categories' = CategoryStep(categories, EXPECTED_CATEGORIES, GIT_DIFF_DATA[i])
    /\ i' = i + 1
    /\ UNCHANGED <<inputs, pc, run, total_insertions, total_deletions, total_net,
                   uncategorized, out, exit_code, first>>

\* lines 257, 279-292: the return, and the category breakdown
Breakdown ==
    /\ pc = "loop"
    /\ i > Len(GIT_DIFF_DATA)
    /\ out' = out \o BreakdownBlocks(categories)
    /\ pc' = "uncat"
    /\ UNCHANGED <<inputs, run, i, total_insertions, total_deletions, total_net,
                   categories, uncategorized, exit_code, first>>

\* lines 294-301
CheckUncategorized ==
    /\ pc = "uncat"
    /\ uncategorized' = UncategorizedFiles(categories)
    /\ out' = IF uncategorized' # <<>>
              THEN Append(out, [kind |-> "uncategorized_warning", files |-> uncategorized'])
              ELSE out
    /\ pc' = "tagged"
    /\ UNCHANGED <<inputs, run, i, total_insertions, total_deletions, total_net,
                   categories, exit_code, first>>

\* lines 303-317
CheckTaggedNoElse ==
    /\ pc = "tagged"
    /\ LET missing_files == MissingFiles(GIT_DIFF_DATA, EXPECTED_CATEGORIES) IN
        out' = IF missing_files # {}
               THEN out \o <<[kind |-> "missing_error", paths |-> SortedPaths(missing_files)],
                              [kind |-> "all_tagged"]>>
               ELSE Append(out, [kind |-> "all_tagged"])
    /\ pc' = "complete"
    /\ UNCHANGED <<inputs, run, i, total_insertions, total_deletions, total_net,
                   categories, uncategorized, exit_code, first>>

CheckTagged ==
    /\ pc = "tagged"
    /\ LET missing_files == MissingFiles(GIT_DIFF_DATA, EXPECTED_CATEGORIES) IN
        out' = IF missing_files # {}
               THEN Append(out, [kind |-> "missing_error", paths |-> SortedPaths(missing_files)])
               ELSE Append(out, [kind |-> "all_tagged"])
    /\ pc' = "complete"
    /\ UNCHANGED <<inputs, run, i, total_insertions, total_deletions, total_net,
                   categories, uncategorized, exit_code, first>>

\* lines 319-325: the closing banner; main() returns None and the process exits 0
Complete ==
    /\ pc = "complete"
    /\ out' = Append(out, [kind |-> "complete"])
    /\ exit_code' = 0
    /\ pc' = "done"
    /\ UNCHANGED <<inputs, run, i, total_insertions, total_deletions, total_net,
                   categories, uncategorized, first>>

\* what one call of main() produced
Report ==
    [total_insertions |-> total_insertions, total_deletions |-> total_deletions,
     total_net |-> total_net, categories |-> categories,
     uncategorized |-> uncategorized, out |-> out, exit_code |-> exit_code]

\* the script is run a second time on the same tables
Rerun ==
    /\ pc = "done"
    /\ run = 1
    /\ first' = <<Report>>
    /\ run' = 2
    /\ out' = <<>>
    /\ exit_code' = 0 - 1
    /\ pc' = "net"
    /\ UNCHANGED <<inputs, i, total_insertions, total_deletions, total_net,
                   categories, uncategorized>>

Next ==
    \/ NetChanges
    \/ CategoryChangesEnter
    \/ CategoryChangesLoop
    \/ Breakdown
    \/ CheckUncategorized
    \/ CheckTagged
    \/ Complete

\* one run of the script
Spec == Init /\ [][Next]_vars

NextTwice ==
    \/ Next
    \/ Rerun

\* the script run, and then run again on the same tables
SpecTwice == Init /\ [][NextTwice]_vars

----------------------------------------------------------------------------
(* Vocabulary of the properties *)

Done == pc = "done"
AfterBreakdown == pc \in {"uncat", "tagged", "complete", "done"}
AfterUncategorized == pc \in {"tagged", "complete", "done"}

DiffPaths == {GIT_DIFF_DATA[k][1] : k \in DOMAIN GIT_DIFF_DATA}
Keys == DOMAIN EXPECTED_CATEGORIES
UnmatchedCategoryEntries == Keys \ DiffPaths

Blocks(kind) == SelectSeq(out, LAMBDA b : b.kind = kind)
Printed(kind) == Blocks(kind) # <<>>

\* the category aggregates: every bucket but the one of the uncategorized files
Aggregates == SelectSeq(categories, LAMBDA c : c.category # SENTINEL)

Occurrences(s, r) == Cardinality({k \in DOMAIN s : s[k] = r})

HasDuplicatePaths ==
    \E a, b \in DOMAIN GIT_DIFF_DATA : a # b /\ GIT_DIFF_DATA[a][1] = GIT_DIFF_DATA[b][1]

Malformed ==
    \/ \E p \in Keys : EXPECTED_CATEGORIES[p] = ""
    \/ \E k \in DOMAIN GIT_DIFF_DATA : GIT_DIFF_DATA[k][2] < 0 \/ GIT_DIFF_DATA[k][3] < 0

\* a changed path is mapped to the name of the uncategorized bucket
SentinelCollision == \E p \in Keys : EXPECTED_CATEGORIES[p] = SENTINEL

\* input that meets the input contract: counts >= 0, category names not blank,
\* one record per path, no category named like the uncategorized bucket
WellFormed == ~Malformed /\ ~HasDuplicatePaths /\ ~SentinelCollision

----------------------------------------------------------------------------
\* C1: after grouping, every change record of GIT_DIFF_DATA is in the file list
\* of exactly one bucket, which is either one category aggregate or the
\* uncategorized list (never both, never neither), as often as it occurs in
\* GIT_DIFF_DATA, and no bucket holds a record that GIT_DIFF_DATA does not.
C1_Partition ==
    AfterUncategorized =>
        /\ \A a, b \in DOMAIN categories :
               categories[a].category = categories[b].category => a = b
        /\ \A r \in Range(GIT_DIFF_DATA) :
            /\ Cardinality({k \in DOMAIN categories : r \in Range(categories[k].files)}) = 1
            /\ (\E k \in DOMAIN Aggregates : r \in Range(Aggregates[k].files))
                   # (r \in Range(uncategorized))
            /\ \A k \in DOMAIN categories :
                   r \in Range(categories[k].files) =>
                       Occurrences(categories[k].files, r) = Occurrences(GIT_DIFF_DATA, r)
        /\ \A k \in DOMAIN categories : Range(categories[k].files) \subseteq Range(GIT_DIFF_DATA)
        /\ Range(uncategorized) \subseteq Range(GIT_DIFF_DATA)

C1_Witness ==
    /\ Done
    /\ Aggregates # <<>>
    /\ uncategorized # <<>>

\* C2: without duplicate paths, total_net is the sum of additions + deletions
\* over the records, and it is also the sum of the aggregates' net plus the
\* sum of additions + deletions over the uncategorized records.
C2_TotalsAgree ==
    (AfterUncategorized /\ ~HasDuplicatePaths) =>
        /\ total_net = SumSeq(Map3(GIT_DIFF_DATA, 2)) + SumSeq(Map3(GIT_DIFF_DATA, 3))
        /\ total_net = SumSeq([k \in DOMAIN Aggregates |-> Aggregates[k].net])
                       + SumSeq(Map3(uncategorized, 2)) + SumSeq(Map3(uncategorized, 3))

C2_Witness ==
    /\ Done
    /\ ~HasDuplicatePaths
    /\ Aggregates # <<>>
    /\ uncategorized # <<>>
    /\ \E k \in DOMAIN Aggregates : Aggregates[k].deletions > 0

\* the list of paths the run reports as the mismatch between the two tables
ReportedMissing ==
    IF Printed("missing_error") THEN Blocks("missing_error")[1].paths ELSE <<>>

C4_DuplicatePathRejected ==
    (HasDuplicatePaths /\ ~Malformed /\ ~SentinelCollision) =>
        /\ ~Printed("facts")
        /\ ~Printed("category")
        /\ \A k \in DOMAIN categories : \A a, b \in DOMAIN categories[k].files :
               categories[k].files[a][1] = categories[k].files[b][1] => a = b
        /\ Done => exit_code # 0

\* C5: the exit code is 0 if and only if the uncategorized list and the
\* unmatched category entries are both empty (stated for well-formed input).
C5_ExitCodeSignalsDrift ==
    (Done /\ WellFormed) => (exit_code = 0 <=> (uncategorized = <<>> /\ UnmatchedCategoryEntries = {}))

\* C6: the uncategorized list the run reports holds exactly the records whose
\* path has no entry in EXPECTED_CATEGORIES, in input order, also when a path
\* is mapped to the name "UNCATEGORIZED" (the input being well formed otherwise).
C6_UncategorizedHasNoEntry ==
    (AfterUncategorized /\ ~Malformed /\ ~HasDuplicatePaths) =>
        /\ uncategorized = SelectSeq(GIT_DIFF_DATA, LAMBDA r : r[1] \notin Keys)
        /\ Printed("uncategorized_warning") <=> (DiffPaths \ Keys # {})

CategoryRank(c) == CHOOSE k \in DOMAIN CategoryOrder : CategoryOrder[k] = c

\* the first record of GIT_DIFF_DATA that falls into bucket c
FirstSeen(c) ==
    LET hits == {k \in DOMAIN GIT_DIFF_DATA :
                    Get(EXPECTED_CATEGORIES, GIT_DIFF_DATA[k][1], SENTINEL) = c}
    IN  CHOOSE k \in hits : \A m \in hits : k <= m

\* the printed blocks of the category aggregates proper
PrintedAggregates == SelectSeq(Blocks("category"), LAMBDA b : b.category # SENTINEL)

\* C8 (as claimed): the categories are printed by descending total, and
\* categories of equal total by ascending category name (stated for
\* well-formed input).
C8_TiesByName ==
    (AfterBreakdown /\ WellFormed) =>
        LET P == PrintedAggregates IN
        \A a, b \in DOMAIN P : a < b =>
            \/ P[a].total > P[b].total
            \/ /\ P[a].total = P[b].total
               /\ CategoryRank(P[a].category) < CategoryRank(P[b].category)

\* C8 (amended): the categories are printed by descending total, and
\* categories of equal total in the order in which they were first
\* encountered in GIT_DIFF_DATA.
C8_TiesByFirstSeen ==
    AfterBreakdown =>
        LET P == Blocks("category") IN
        /\ Len(P) = Len(categories)
        /\ \A a, b \in DOMAIN P : a < b =>
            \/ P[a].total > P[b].total
            \/ /\ P[a].total = P[b].total
               /\ FirstSeen(P[a].category) < FirstSeen(P[b].category)

C8_Witness ==
    /\ Done
    /\ WellFormed
    /\ LET P == PrintedAggregates IN
       \E a, b \in DOMAIN P :
           /\ a < b
           /\ P[a].total = P[b].total
           /\ CategoryRank(P[a].category) > CategoryRank(P[b].category)

\* C9: a blank category name or a negative count (in input without duplicate
\* paths) makes the run fail before any totals or aggregates are produced.
C9_MalformedRejected ==
    (Malformed /\ ~HasDuplicatePaths /\ ~SentinelCollision) =>
        /\ ~Printed("facts")
        /\ ~Printed("category")
        /\ categories = <<>>
        /\ Done => exit_code # 0

\* C10: the second run on the same tables produces what the first produced
\* (totals, aggregates and their order, sums, file lists, uncategorized list,
\* printed blocks), and no step of either run changes the two tables.
C10_Idempotent ==
    /\ []((run = 2 /\ Done) => first = <<Report>>)
    /\ [][GIT_DIFF_DATA' = GIT_DIFF_DATA /\ EXPECTED_CATEGORIES' = EXPECTED_CATEGORIES]_vars

C10_Witness ==
    /\ run = 2
    /\ Done
    /\ Len(categories) >= 2
    /\ uncategorized # <<>>
    /\ total_net > 0

====
